---- MODULE Spec2Model ----
(***************************************************************************)
(* Find a Tender data fetcher (src/app.py): the Flask trigger endpoints,   *)
(* the background pipeline thread fetch_and_process_data, the report       *)
(* thread update_closed_unawarded_notices, the upstream release feed and   *)
(* the spreadsheet sink (Metadata cells and the notice tables).            *)
(*                                                                         *)
(* Every step of a thread that reads or writes shared state (the module    *)
(* globals job_running / to_date / last_run_time, or one spreadsheet API   *)
(* call) is one action; thread-local computation is folded into the step   *)
(* that follows the shared access.                                         *)
(***************************************************************************)
EXTENDS Integers, Sequences, FiniteSets, TLC

\* ---------------------------------------------------------------- bounds
MaxRuns == 2          \* pipeline threads that /run may start in a behaviour
MaxClosers == 1       \* report threads that /update-closed may start
MaxClock == 2         \* wall-clock readings 1..MaxClock
MaxDocs == 2          \* documents of one release, all sections together
MaxLots == 3          \* lots of one release
MaxPages == 3         \* pages the upstream API splits a dataset into
MaxDigits == 3        \* digits of a number of the page body
MaxAwards == 2        \* awards of one release

Runs == 1..MaxRuns
Closers == 1..MaxClosers

\* ------------------------------------------------------------- constants
MY_ORG_ID == "GB-PPON-PJDG-6588-XDMM"
OTHER_ORG_ID == "GB-PPON-OTHER"
\* Timestamps are integers; the default '2025-02-24T00:00:00' is the origin.
EPOCH == 0
\* An empty spreadsheet cell / Python None.
Blank == -1
\* A cell holding text that does not parse as %Y-%m-%dT%H:%M:%S.
Invalid == -2

WriteOrder ==
    << "Planning_Notices", "Tender_Notices", "Lots", "Awards",
       "Award_Notices", "Procurement_Terminations" >>
DataTables == { WriteOrder[i] : i \in 1..Len(WriteOrder) }
ClosedTable == "Closed_Notices_Not_Awarded"
TableNames == DataTables \cup {ClosedTable}

\* -------------------------------------------------------------- releases
\* buyer.id of a release that carries none.
NoBuyer == ""
\* A release as the code reads it: contracts and awards are lists whose
\* first element matters, documents are lists of noticeType values, lots is
\* len(tender.lots) (Blank: the key is absent, 0: an empty list), planning
\* says whether the "planning" key is present.
\* ocid is a small integer standing for the OCID string, date the publication
\* timestamp, deadline tender.tenderPeriod.endDate (Blank when absent).
\* title is tender.title, tag the release's tag list, amount_text the digits
\* of tender.value.amount as the page body writes them (Absent, {} and <<>>
\* when the key is absent).  has_parties says whether the "parties" key is
\* present: with no party_ids it is then an empty list.
Absent == "<absent>"
Release(ocid, buyer, parties, contracts, awards, tdocs, planning, pdocs, lots, date, deadline) ==
    [ ocid |-> ocid, buyer_id |-> buyer, party_ids |-> parties,
      contracts |-> contracts, awards |-> awards,
      tender_documents |-> tdocs, planning |-> planning,
      planning_documents |-> pdocs, lots |-> lots,
      date |-> date, deadline |-> deadline,
      title |-> Absent, tag |-> {}, amount_text |-> <<>>,
      has_parties |-> parties # {} ]

\* contracts[0] and an award: value is value.amount and dateSigned the
\* contract's signature timestamp in seconds (Blank when the key is absent,
\* Invalid for a dateSigned that is not a date).
Contract(docs) == [ documents |-> docs, value |-> Blank, dateSigned |-> Blank ]
Award(docs, status) == [ documents |-> docs, status |-> status, value |-> Blank ]

\* The feed served in the service specification: two pages, the first with
\* a next link carrying a cursor.
TenderRelease ==
    Release(1, MY_ORG_ID, {}, <<>>, <<>>, <<"UK4">>, FALSE, <<>>, 1, 1, 1)
ForeignRelease ==
    Release(9, OTHER_ORG_ID, {}, <<>>, <<>>, <<"UK4">>, FALSE, <<>>, 1, 1, 1)
TerminationRelease ==
    Release(2, NoBuyer, {MY_ORG_ID}, <<>>, << Award(<<>>, "cancelled") >>,
            <<"UK4", "UK12">>, FALSE, <<>>, 1, 1, 1)

Page(releases, next) == [ releases |-> releases, next |-> next ]
ServiceFeed ==
    << Page(<< TenderRelease, ForeignRelease >>, "cursor"),
       Page(<< TerminationRelease >>, "none") >>

\* ------------------------------------------------- fetch_releases helpers
\* Organisation filter of one page (app.py 167-172).
KeepRelease(r) ==
    \/ r.buyer_id = MY_ORG_ID
    \/ (r.buyer_id = NoBuyer /\ MY_ORG_ID \in r.party_ids)

org_releases(releases) == SelectSeq(releases, KeepRelease)

\* --------------------------------------------------- notice classification
Last(s) == s[Len(s)]

contract_docs(release) ==
    IF release.contracts # <<>> THEN release.contracts[1].documents ELSE <<>>

award_docs(release) ==
    IF release.awards # <<>> THEN release.awards[1].documents ELSE <<>>

\* SelectDocuments with the four lists merged in priority order.
SelectDocuments_Merged(release) ==
    contract_docs(release) \o award_docs(release)
        \o release.tender_documents \o release.planning_documents

\* The first non-empty list in priority order; <<>> is the `continue` case.
SelectDocuments(release) ==
    IF contract_docs(release) # <<>> THEN contract_docs(release)
    ELSE IF award_docs(release) # <<>> THEN award_docs(release)
    ELSE IF release.tender_documents # <<>> THEN release.tender_documents
    ELSE release.planning_documents

Unclassified == "unclassified"
IndexError == "IndexError"

\* notice_type without the `else: continue` of the document selection.
notice_type_NoSkip(release) ==
    IF SelectDocuments(release) = <<>> THEN IndexError
    ELSE IF release.awards # <<>> /\ release.awards[1].status = "cancelled"
         THEN IF release.tender_documents = <<>> THEN IndexError
              ELSE Last(release.tender_documents)
         ELSE Last(SelectDocuments(release))

\* The notice type of a release: Unclassified when the loop body hits
\* `continue`, IndexError when documents[-1] is evaluated on an empty list.
notice_type(release) ==
    IF SelectDocuments(release) = <<>> THEN Unclassified
    ELSE IF release.awards # <<>> /\ release.awards[1].status = "cancelled"
         THEN IF release.tender_documents = <<>> THEN IndexError
              ELSE Last(release.tender_documents)
         ELSE Last(SelectDocuments(release))

\* ------------------------------------------------------ record extraction
NA == "N/A"
SeeLots == "See lots sheet for CPV codes"
\* A column the record of that table does not have.
NoColumn == ""
\* What every lot and every item of the modelled releases carries:
\* lots[i].contractPeriod.startDate and
\* items[0].additionalClassifications[0].id.
LotStartDate == "2025-04-01T00:00:00"
ItemCPV == "45000000"

PlanningTypes == { "UK1", "UK2", "UK3" }
TenderTypes == { "UK4" }
AwardTypes == { "UK5", "UK6", "UK7" }
TerminationTypes == { "UK12" }

\* len(lots) with lots = release.get("tender", {}).get("lots", []) (app.py 379).
lots_len(release) == IF release.lots = Blank THEN 0 ELSE release.lots

\* is_update (app.py 380): some tag contains 'update', whatever its case.
UpdateTags == { "tenderUpdate", "planningUpdate", "awardUpdate" }
is_update(release) == release.tag \cap UpdateTags # {}

\* "CPV Code" of a notice record (app.py 403-404, 494-495, 642-643).
cpv_code(release) == IF lots_len(release) = 1 THEN ItemCPV ELSE SeeLots

\* "Contract Start Date" of a planning or tender record (app.py 399, 489):
\* lots[0].contractPeriod.startDate, "N/A" when the lots key is absent.
contract_start_date(release) ==
    IF release.lots = Blank THEN NA ELSE LotStartDate

\* The digits of a number of the page body after the two re.sub calls
\* (app.py 146-148), where the body writes the member as `"amount": digits`.
\* The first pattern, 0+([1-9]\d*), drops the zeros in front of the first
\* non-zero digit; the second, 0+\b, turns a run of zeros that ends the
\* number into one 0.
RECURSIVE StripZeros(_)
StripZeros(digits) ==
    IF digits = <<>> \/ digits[1] # 0 THEN digits ELSE StripZeros(Tail(digits))

\* fixed_json without the second re.sub, the one for numbers of zeros only.
fixed_json_FirstSubOnly(digits) ==
    IF digits = <<>> \/ digits[1] # 0 THEN digits
    ELSE IF StripZeros(digits) # <<>> THEN StripZeros(digits)
    ELSE digits

fixed_json(digits) ==
    IF digits = <<>> \/ digits[1] # 0 THEN digits
    ELSE IF StripZeros(digits) # <<>> THEN StripZeros(digits)
    ELSE << 0 >>

\* json.loads on a number (app.py 150): a JSON integer is 0 or starts with a
\* non-zero digit; anything else raises JSONDecodeError.
JsonNumberOk(digits) == digits = <<>> \/ digits = << 0 >> \/ digits[1] # 0

RECURSIVE JsonNumber(_)
JsonNumber(digits) ==
    IF digits = <<>> THEN 0
    ELSE 10 * JsonNumber(SubSeq(digits, 1, Len(digits) - 1)) + digits[Len(digits)]

\* tender.value.amount of a release after the page was parsed, Blank when
\* the key is absent.
amount(release) ==
    IF release.amount_text = <<>> THEN Blank
    ELSE JsonNumber(fixed_json(release.amount_text))

\* The `//` divisor of "Days to Award" (app.py 667).
SecondsPerDay == 86400

\* "Days to Award" of an award notice (app.py 665-668): << n >> for the
\* number n, << >> for the empty string.
NoDays == << >>
days_to_award(release) ==
    IF /\ release.contracts # <<>>
       /\ release.contracts[1].dateSigned # Blank
       /\ release.date # Blank
    THEN << (release.date - release.contracts[1].dateSigned) \div SecondsPerDay >>
    ELSE NoDays

\* int(nan): both dates are present and one of them does not parse, so
\* pd.to_datetime(..., errors='coerce') is NaT, total_seconds() is nan and
\* int() raises ValueError (app.py 665-668).
DaysToAwardRaises(release) ==
    /\ release.contracts # <<>>
    /\ release.contracts[1].dateSigned # Blank
    /\ release.date # Blank
    /\ Invalid \in { release.date, release.contracts[1].dateSigned }

\* "Value ex VAT" of the award record of awards[idx] (app.py 717-721).
award_value(release, type, idx) ==
    IF type = "UK7"
    THEN IF release.contracts = <<>> THEN Blank ELSE release.contracts[1].value
    ELSE release.awards[idx].value

\* A row of a table.  Number is the lot number / award position (0 for a
\* notice row).  IsUpdate and Title are columns of every table; Value, CPV,
\* ContractStart and DaysToAward are modelled for notice rows, where Value
\* ("Value ex VAT") is Blank for "N/A".
Row(release, type, number) ==
    [ OCID |-> release.ocid, NoticeType |-> type, Number |-> number,
      Date |-> release.date, Deadline |-> release.deadline,
      IsUpdate |-> is_update(release),
      Title |-> IF release.title = Absent THEN NA ELSE release.title,
      Value |-> IF number = 0 /\ type \in PlanningTypes \cup TenderTypes
                THEN amount(release) ELSE Blank,
      CPV |-> IF number = 0 /\ type \notin TerminationTypes
              THEN cpv_code(release) ELSE NoColumn,
      ContractStart |-> IF number = 0 /\ type \in PlanningTypes \cup TenderTypes
                        THEN contract_start_date(release) ELSE NoColumn,
      DaysToAward |-> IF number = 0 /\ type \in AwardTypes
                      THEN days_to_award(release) ELSE NoDays ]

EmptyResults == [ t \in DataTables |-> <<>> ]

lot_results(release, type) ==
    IF lots_len(release) > 1
    THEN [ idx \in 1..lots_len(release) |-> Row(release, type, idx) ]
    ELSE <<>>

award_results(release, type) ==
    IF type \in {"UK6", "UK7"}
    THEN [ idx \in 1..Len(release.awards) |->
             [ Row(release, type, idx) EXCEPT
                 !.Value = award_value(release, type, idx) ] ]
    ELSE <<>>

\* Whether building the record raises: .get("lots", [{}])[0] and
\* .get("parties", [{}])[0] are an IndexError on a list that is present and
\* empty (app.py 399, 472 and 431, 528, 663).
ExtractRaises(release, type) ==
    \/ /\ release.lots = 0
       /\ \/ type \in TenderTypes
          \/ (type \in PlanningTypes /\ release.planning)
    \/ /\ release.has_parties /\ release.party_ids = {}
       /\ \/ type \in TenderTypes \cup AwardTypes
          \/ (type \in PlanningTypes /\ release.planning)
    \/ type \in AwardTypes /\ DaysToAwardRaises(release)

\* ExtractRecords with the UK12 branch an `if` after the UK4 branch rather
\* than an `elif` of it, and UK4 notices falling into it as well.
ExtractRecords_TerminationToo(release, type) ==
    IF type \in {"UK1", "UK2", "UK3"} THEN
        IF release.planning
        THEN [ EmptyResults EXCEPT
                 !["Planning_Notices"] = << Row(release, type, 0) >>,
                 !["Lots"] = lot_results(release, type) ]
        ELSE EmptyResults
    ELSE IF type = "UK4" THEN
        [ EmptyResults EXCEPT
            !["Tender_Notices"] = << Row(release, type, 0) >>,
            !["Procurement_Terminations"] = << Row(release, type, 0) >>,
            !["Lots"] = lot_results(release, type) ]
    ELSE IF type = "UK12" THEN
        [ EmptyResults EXCEPT
            !["Procurement_Terminations"] = << Row(release, type, 0) >> ]
    ELSE IF type \in {"UK5", "UK6", "UK7"} THEN
        [ EmptyResults EXCEPT
            !["Award_Notices"] = << Row(release, type, 0) >>,
            !["Lots"] = lot_results(release, type),
            !["Awards"] = award_results(release, type) ]
    ELSE EmptyResults

\* The records one release adds to the result lists (app.py 382-747).
ExtractRecords(release, type) ==
    IF type \in {"UK1", "UK2", "UK3"} THEN
        IF release.planning
        THEN [ EmptyResults EXCEPT
                 !["Planning_Notices"] = << Row(release, type, 0) >>,
                 !["Lots"] = lot_results(release, type) ]
        ELSE EmptyResults
    ELSE IF type = "UK4" THEN
        [ EmptyResults EXCEPT
            !["Tender_Notices"] = << Row(release, type, 0) >>,
            !["Lots"] = lot_results(release, type) ]
    ELSE IF type = "UK12" THEN
        [ EmptyResults EXCEPT
            !["Procurement_Terminations"] = << Row(release, type, 0) >> ]
    ELSE IF type \in {"UK5", "UK6", "UK7"} THEN
        [ EmptyResults EXCEPT
            !["Award_Notices"] = << Row(release, type, 0) >>,
            !["Lots"] = lot_results(release, type),
            !["Awards"] = award_results(release, type) ]
    ELSE EmptyResults

\* The release loop of fetch_and_process_data (app.py 348-747) over
\* releases[i..]: acc are the result lists so far.  An exception raised by a
\* release leaves the loop at once.
RECURSIVE ProcessFrom(_, _, _)
ProcessFrom(releases, i, acc) ==
    IF i > Len(releases) THEN [ raised |-> FALSE, results |-> acc ]
    ELSE LET type == notice_type(releases[i]) IN
         IF type = IndexError \/ ExtractRaises(releases[i], type)
         THEN [ raised |-> TRUE, results |-> acc ]
         ELSE IF type = Unclassified THEN ProcessFrom(releases, i + 1, acc)
         ELSE LET rec == ExtractRecords(releases[i], type) IN
              ProcessFrom(releases, i + 1,
                          [ t \in DataTables |-> acc[t] \o rec[t] ])

ProcessReleases(releases) == ProcessFrom(releases, 1, EmptyResults)

\* Index in WriteOrder of the first non-empty result list at or after k
\* (Len(WriteOrder) + 1 when there is none): the `if not df.empty` guards.
RECURSIVE NextTable(_, _)
NextTable(results, k) ==
    IF k > Len(WriteOrder) THEN k
    ELSE IF results[WriteOrder[k]] # <<>> THEN k
    ELSE NextTable(results, k + 1)

\* ------------------------------------------------------------------ state
VARIABLES
    job_running,    \* module global (app.py 56)
    last_run_time,  \* module global (app.py 57), Blank for None
    to_date,        \* module global assigned by fetch_releases (app.py 121)
    worksheets,     \* names of the worksheets the spreadsheet has
    cells,          \* Metadata cells: A1 (holds 'last_fetch_date'?), B1, B2, B3
    tables,         \* data rows of each table, below its header row
    now,            \* the wall clock at its last reading
    upstream,       \* the pages the upstream API serves
    runs,           \* pipeline threads (fetch_and_process_data)
    closers         \* report threads (update_closed_unawarded_notices)

vars == << job_running, last_run_time, to_date, worksheets, cells, tables,
           now, upstream, runs, closers >>

sink == << worksheets, cells, tables >>

\* A pipeline thread before /run has started it.  updated_to is the
\* 'updatedTo' of params (app.py 128-132), a local of fetch_releases.  outcome
\* (of the last page request), raised (by the release loop), lfd_before,
\* date_calls, status_calls, changed_date, write_failed and rows_written record what the
\* thread has met and done so far; the code keeps no such record.
IdleRun ==
    [ pc |-> "idle", from_date |-> Blank, updated_to |-> Blank,
      page_count |-> 0, all_releases |-> <<>>, error_occurred |-> FALSE,
      results |-> EmptyResults, table |-> 0, existing |-> FALSE,
      outcome |-> "", raised |-> FALSE,
      lfd_before |-> Blank, date_calls |-> 0, status_calls |-> <<>>,
      changed_date |-> FALSE, write_failed |-> FALSE, rows_written |-> 0 ]

IdleCloser ==
    [ pc |-> "idle", rows |-> <<>>, result |-> "none" ]

\* The value get_last_fetch_date returns while the Metadata sheet exists
\* (app.py 65-66).
LastFetchDate(c) == IF c.B1 = Blank THEN EPOCH ELSE c.B1

\* get_to_date (app.py 77-92): the B2 override when it is set and parses,
\* the current time otherwise (also when the lookup raises).
get_to_date(ws, c, clock) ==
    IF "Metadata" \in ws /\ c.B2 # Blank /\ c.B2 # Invalid THEN c.B2 ELSE clock

InitService ==
    /\ job_running = FALSE
    /\ last_run_time = Blank
    /\ to_date = Blank
    /\ worksheets = {}
    /\ cells = [ A1 |-> FALSE, B1 |-> Blank, B2 |-> Blank, B3 |-> "" ]
    /\ tables = [ t \in TableNames |-> <<>> ]
    /\ now = 1
    /\ runs = [ r \in Runs |-> IdleRun ]
    /\ closers = [ c \in Closers |-> IdleCloser ]

Init ==
    /\ InitService
    /\ upstream = ServiceFeed

\* ------------------------------------------------------ trigger endpoints
\* The clock readings a step can make: time does not run backwards, and it
\* moves by at most one unit between two readings.
ClockReadings == { t \in {now, now + 1} : t <= MaxClock }

\* The "status" of the response of GET /run (app.py 858-872).
run_job_status == IF job_running THEN "in_progress" ELSE "started"

\* The response of GET / (app.py 878-883).
health_response ==
    [ status |-> "healthy", job_running |-> job_running,
      last_run |-> last_run_time ]

\* GET /run while job_running is false: starts the thread (app.py 864-872).
\* r is the next thread not yet started.
RunJobStart(r) ==
    /\ run_job_status = "started"
    /\ runs[r].pc = "idle"
    /\ \A q \in Runs : q < r => runs[q].pc # "idle"
    /\ runs' = [ runs EXCEPT ![r].pc = "started",
                             ![r].lfd_before = LastFetchDate(cells) ]
    /\ UNCHANGED << job_running, last_run_time, to_date, sink, now, upstream,
                    closers >>

\* GET /run while job_running is true (app.py 858-862): answers only.
RunJobInProgress ==
    /\ run_job_status = "in_progress"
    /\ UNCHANGED vars

\* GET / (app.py 875-883): answers health_response, changes nothing.
health_check ==
    /\ health_response.status = "healthy"
    /\ UNCHANGED vars

\* GET /update-closed (app.py 885-892): always starts a report thread.
update_closed_notices(c) ==
    /\ closers[c].pc = "idle"
    /\ \A q \in Closers : q < c => closers[q].pc # "idle"
    /\ closers' = [ closers EXCEPT ![c].pc = "open" ]
    /\ UNCHANGED << job_running, last_run_time, to_date, sink, now, upstream,
                    runs >>

\* ---------------------------------------- pipeline: fetch_and_process_data
\* job_running = True (app.py 307), the first statement of the thread.
SetRunning(r) ==
    /\ runs[r].pc = "started"
    /\ job_running' = TRUE
    /\ runs' = [ runs EXCEPT ![r].pc = "open" ]
    /\ UNCHANGED << last_run_time, to_date, sink, now, upstream, closers >>

\* OpenMetadata without get_or_create_worksheet and the A1 default: the
\* thread goes to fetch_releases with the spreadsheet as it found it.
OpenMetadata_NoCreate(r) ==
    /\ runs[r].pc = "open"
    /\ runs' = [ runs EXCEPT ![r].pc = "fetch" ]
    /\ UNCHANGED << job_running, last_run_time, to_date, worksheets, cells,
                    tables, now, upstream, closers >>

\* Open the spreadsheet, get or create Metadata and read A1 (app.py 312-317).
OpenMetadata(r) ==
    /\ runs[r].pc = "open"
    /\ worksheets' = worksheets \cup {"Metadata"}
    /\ runs' = [ runs EXCEPT
                   ![r].pc = IF cells.A1 THEN "fetch" ELSE "meta_write" ]
    /\ UNCHANGED << job_running, last_run_time, to_date, cells, tables, now,
                    upstream, closers >>

\* metadata_sheet.update('A1:B1', [['last_fetch_date', '2025-02-24T00:00:00']])
\* (app.py 318).
MetaWrite(r) ==
    /\ runs[r].pc = "meta_write"
    /\ cells' = [ cells EXCEPT !.A1 = TRUE, !.B1 = EPOCH ]
    /\ runs' = [ runs EXCEPT
                   ![r].pc = "fetch",
                   ![r].changed_date =
                       @ \/ LastFetchDate(cells) # EPOCH ]
    /\ UNCHANGED << job_running, last_run_time, to_date, worksheets, tables,
                    now, upstream, closers >>

\* What one page request can come to: a parsed page, requests.Timeout,
\* an HTTP error status (requests.RequestException), or a body that
\* json.loads rejects.
Outcomes == { "ok", "timeout", "http_error", "bad_json" }

\* SetsError without the `except requests.Timeout` clause.
SetsError_NoTimeout(outcome) == outcome = "http_error"

\* Whether the outcome of a page request sets error_occurred (app.py 149-159,
\* 195-202).
SetsError(outcome) == outcome \in { "timeout", "http_error" }

\* MorePages stopping at a page without releases of the organisation.
MorePages_OrgOnly(page) ==
    org_releases(page.releases) # <<>> /\ page.next = "cursor"

\* Whether the page loop goes on to another page after a parsed page
\* (app.py 161-190).
MorePages(page) == page.releases # <<>> /\ page.next = "cursor"

\* The page loop of fetch_releases (app.py 135-205) from page `cursor` on,
\* where outcomes[p] is what the p-th request comes to.  page_count is the
\* number of pages requested, outcome what the last request came to.
\* What a page request comes to, given what the transport did: a body that
\* arrived is bad JSON when one of its numbers still is after the fix
\* (app.py 144-154).
PageOutcome(page, transport) ==
    IF transport = "ok"
       /\ \E i \in 1..Len(page.releases) :
             ~JsonNumberOk(fixed_json(page.releases[i].amount_text))
    THEN "bad_json" ELSE transport

RECURSIVE page_loop(_, _, _, _)
page_loop(pages, outcomes, cursor, all_releases) ==
    LET page == pages[cursor]
        outcome == PageOutcome(page, outcomes[cursor])
    IN IF outcome # "ok"
       THEN [ all_releases |-> all_releases,
              error_occurred |-> SetsError(outcome), page_count |-> cursor,
              outcome |-> outcome ]
       ELSE IF MorePages(page)
       THEN page_loop(pages, outcomes, cursor + 1,
                      all_releases \o org_releases(page.releases))
       ELSE [ all_releases |-> all_releases \o org_releases(page.releases),
              error_occurred |-> FALSE, page_count |-> cursor,
              outcome |-> outcome ]

\* Get or create the six data worksheets (app.py 322-327), then
\* fetch_releases (app.py 116-205): from_date and the global to_date are read
\* from the Metadata sheet and the pages are requested.  get_last_fetch_date
\* creates the sheet with the current time when it is missing (app.py 67-74).
\* The page loop touches nothing another thread can see, so it is part of
\* this step.
fetch_releases(r, outcomes, clock) ==
    /\ runs[r].pc = "fetch"
    /\ now' = clock
    /\ LET fetched == page_loop(upstream, outcomes, 1, <<>>)
           from_date == IF "Metadata" \in worksheets
                        THEN LastFetchDate(cells) ELSE clock
       IN runs' = [ runs EXCEPT ![r].pc = "fetched",
                                ![r].from_date = from_date,
                                ![r].updated_to =
                                    get_to_date(
                                      worksheets \cup {"Metadata"},
                                      IF "Metadata" \in worksheets THEN cells
                                      ELSE [ cells EXCEPT !.B1 = clock ],
                                      clock),
                                ![r].page_count = fetched.page_count,
                                ![r].outcome = fetched.outcome,
                                ![r].all_releases = fetched.all_releases,
                                ![r].error_occurred = fetched.error_occurred ]
    /\ worksheets' = worksheets \cup DataTables \cup {"Metadata"}
    /\ cells' = IF "Metadata" \in worksheets THEN cells
                ELSE [ cells EXCEPT !.A1 = TRUE, !.B1 = clock ]
    /\ to_date' = get_to_date(worksheets', cells', clock)
    /\ UNCHANGED << job_running, last_run_time, tables, upstream, closers >>

\* update_last_fetch_status (app.py 106-114): the cell write, or nothing when
\* the call fails (the exception is logged and swallowed).
update_last_fetch_status(c, status, ok) ==
    IF ok THEN [ c EXCEPT !.B3 = status ] ELSE c

\* AfterFetch without the early return of the fetch_error branch.
AfterFetch_NoReturn(fetch_error) == "process"

\* What the pipeline does once fetch_releases has returned (app.py 331-337):
\* "failed" is the early return, "process" goes on to the release loop.
AfterFetch(fetch_error) == IF fetch_error THEN "failed" ELSE "process"

\* The fetch_error branch (app.py 334-337).
FetchFailed(r, ok) ==
    /\ runs[r].pc = "fetched"
    /\ AfterFetch(runs[r].error_occurred) = "failed"
    /\ cells' = update_last_fetch_status(cells, "Fetch failed", ok)
    /\ runs' = [ runs EXCEPT
                   ![r].pc = "finally",
                   ![r].status_calls = Append(@, "Fetch failed") ]
    /\ UNCHANGED << job_running, last_run_time, to_date, worksheets, tables,
                    now, upstream, closers >>

\* The release loop and the DataFrame preparation (app.py 339-780); an
\* exception goes to the handler at app.py 846.
Process(r) ==
    /\ runs[r].pc = "fetched"
    /\ AfterFetch(runs[r].error_occurred) = "process"
    /\ LET out == ProcessReleases(runs[r].all_releases)
           k == NextTable(out.results, 1)
       IN runs' = [ runs EXCEPT
              ![r].results = out.results,
              ![r].raised = out.raised,
              ![r].table = k,
              ![r].pc = IF out.raised THEN "finally"
                        ELSE IF k > Len(WriteOrder) THEN "update_date"
                        ELSE "read_existing" ]
    /\ UNCHANGED << job_running, last_run_time, to_date, sink, now, upstream,
                    closers >>

\* existing_data = sheet.get_all_values(); len(existing_data) > 1
\* (app.py 787-788 and the five like it).
ReadExisting(r) ==
    /\ runs[r].pc = "read_existing"
    /\ runs' = [ runs EXCEPT
                   ![r].existing = tables[WriteOrder[runs[r].table]] # <<>>,
                   ![r].pc = "write_rows" ]
    /\ UNCHANGED << job_running, last_run_time, to_date, sink, now, upstream,
                    closers >>

\* The rows of a table after append_rows (existing) or after
\* update('A1', header + rows), which overwrites from the top.
WrittenTable(old, rows, existing) ==
    IF existing THEN old \o rows
    ELSE rows \o SubSeq(old, Len(rows) + 1, Len(old))

\* Where the pipeline goes after a table write: the next non-empty table,
\* update_last_fetch_date after the last one, the exception handler when the
\* write raised (app.py 784-836, 846).
AfterWrite(results, k, ok) ==
    IF ~ok THEN "finally"
    ELSE IF NextTable(results, k + 1) > Len(WriteOrder) THEN "update_date"
    ELSE "read_existing"

\* One table write (app.py 790/793 and the five like it).
WriteRows(r, ok) ==
    /\ runs[r].pc = "write_rows"
    /\ LET k == runs[r].table
           t == WriteOrder[k]
       IN /\ tables' = IF ok
                       THEN [ tables EXCEPT
                                ![t] = WrittenTable(@, runs[r].results[t],
                                                    runs[r].existing) ]
                       ELSE tables
          /\ runs' = [ runs EXCEPT
                         ![r].table = IF ok THEN NextTable(runs[r].results, k + 1)
                                      ELSE @,
                         ![r].write_failed = @ \/ ~ok,
                         ![r].rows_written =
                             IF ok THEN @ + Len(runs[r].results[t]) ELSE @,
                         ![r].pc = AfterWrite(runs[r].results, k, ok) ]
    /\ UNCHANGED << job_running, last_run_time, to_date, worksheets, cells,
                    now, upstream, closers >>

\* update_last_fetch_date(to_date) (app.py 836, 94-104): writes B1 from the
\* global to_date, or re-raises when the sheet call fails.
UpdateLastFetchDate(r, ok) ==
    /\ runs[r].pc = "update_date"
    /\ cells' = IF ok THEN [ cells EXCEPT !.B1 = to_date ] ELSE cells
    /\ runs' = [ runs EXCEPT
                   ![r].pc = IF ok THEN "update_status" ELSE "finally",
                   ![r].date_calls = @ + 1,
                   ![r].changed_date =
                       @ \/ LastFetchDate(cells') # LastFetchDate(cells) ]
    /\ UNCHANGED << job_running, last_run_time, to_date, worksheets, tables,
                    now, upstream, closers >>

\* update_last_fetch_status("success") and last_run_time (app.py 838-841).
UpdateLastFetchStatus(r, ok, clock) ==
    /\ runs[r].pc = "update_status"
    /\ cells' = update_last_fetch_status(cells, "success", ok)
    /\ now' = clock
    /\ last_run_time' = clock
    /\ runs' = [ runs EXCEPT
                   ![r].pc = "finally",
                   ![r].status_calls = Append(@, "success") ]
    /\ UNCHANGED << job_running, to_date, worksheets, tables, upstream,
                    closers >>

\* Finally without the assignment of the finally block.
Finally_NoReset(r) ==
    /\ runs[r].pc = "finally"
    /\ runs' = [ runs EXCEPT ![r].pc = "done" ]
    /\ UNCHANGED << job_running, last_run_time, to_date, sink, now, upstream,
                    closers >>

\* finally: job_running = False (app.py 849-850).
Finally(r) ==
    /\ runs[r].pc = "finally"
    /\ job_running' = FALSE
    /\ runs' = [ runs EXCEPT ![r].pc = "done" ]
    /\ UNCHANGED << last_run_time, to_date, sink, now, upstream, closers >>

Pipeline(r) ==
    \/ SetRunning(r)
    \/ OpenMetadata(r)
    \/ MetaWrite(r)
    \/ \E outcomes \in [ 1..Len(upstream) -> Outcomes ], clock \in ClockReadings :
          fetch_releases(r, outcomes, clock)
    \/ \E ok \in BOOLEAN : FetchFailed(r, ok)
    \/ Process(r)
    \/ ReadExisting(r)
    \/ \E ok \in BOOLEAN : WriteRows(r, ok)
    \/ \E ok \in BOOLEAN : UpdateLastFetchDate(r, ok)
    \/ \E ok \in BOOLEAN, clock \in ClockReadings :
          UpdateLastFetchStatus(r, ok, clock)
    \/ Finally(r)

\* ----------------------------- report: update_closed_unawarded_notices
RowsOf(seq) == { seq[i] : i \in 1..Len(seq) }

\* latest_uk4 (app.py 245): per OCID the UK4 row with the greatest Published
\* Date, the later row of the sheet among equal dates.
latest_uk4(tender_rows) ==
    LET uk4 == { i \in 1..Len(tender_rows) : tender_rows[i].NoticeType = "UK4" }
        last(o) == CHOOSE i \in uk4 :
                     /\ tender_rows[i].OCID = o
                     /\ \A j \in uk4 : tender_rows[j].OCID = o =>
                          \/ tender_rows[j].Date < tender_rows[i].Date
                          \/ (tender_rows[j].Date = tender_rows[i].Date /\ j <= i)
    IN { tender_rows[last(o)] : o \in { tender_rows[i].OCID : i \in uk4 } }

\* The closed tenders without termination or UK6/UK7 award notice
\* (app.py 249-270).
unawarded(tender_rows, award_rows, termination_rows, current_date) ==
    LET closed == { n \in latest_uk4(tender_rows) : n.Deadline < current_date }
        terminated_ocids == { n.OCID : n \in RowsOf(termination_rows) }
        awarded_ocids == { n.OCID : n \in { m \in RowsOf(award_rows) :
                                             m.NoticeType \in {"UK6", "UK7"} } }
    IN { n \in closed : n.OCID \notin terminated_ocids
                        /\ n.OCID \notin awarded_ocids }

\* A set of rows as the list reset_index() yields: ascending OCID.
RECURSIVE closed_unawarded(_)
closed_unawarded(rows) ==
    IF rows = {} THEN <<>>
    ELSE LET first == CHOOSE n \in rows : \A m \in rows : n.OCID <= m.OCID
         IN << first >> \o closed_unawarded(rows \ {first})

\* Open the spreadsheet and look the worksheets up (app.py 220-226);
\* sh.worksheet raises when one of the three sheets is missing.
CloserOpen(c) ==
    /\ closers[c].pc = "open"
    /\ IF {"Tender_Notices", "Award_Notices", "Procurement_Terminations"}
            \subseteq worksheets
       THEN /\ worksheets' = worksheets \cup {ClosedTable}
            /\ closers' = [ closers EXCEPT ![c].pc = "read" ]
       ELSE /\ closers' = [ closers EXCEPT ![c].pc = "done",
                                           ![c].result = "False" ]
            /\ UNCHANGED worksheets
    /\ UNCHANGED << job_running, last_run_time, to_date, cells, tables, now,
                    upstream, runs >>

\* Read the three sheets and work out the rows to report (app.py 229-283).
\* A Submission Deadline of 'N/A' makes pd.to_datetime raise.
CloserRead(c, clock) ==
    /\ closers[c].pc = "read"
    /\ now' = clock
    /\ LET tender_rows == tables["Tender_Notices"]
           award_rows == tables["Award_Notices"]
           termination_rows == tables["Procurement_Terminations"]
           latest == latest_uk4(tender_rows)
           rows == closed_unawarded(
                       unawarded(tender_rows, award_rows, termination_rows, clock))
       IN closers' = [ closers EXCEPT
              ![c].rows = IF \E n \in latest : n.Deadline = Blank
                          THEN <<>> ELSE rows,
              ![c].result =
                  IF latest = {} THEN "True"
                  ELSE IF \E n \in latest : n.Deadline = Blank THEN "False"
                  ELSE IF rows = <<>> THEN "True"
                  ELSE "none",
              ![c].pc =
                  IF latest # {} /\ (\A n \in latest : n.Deadline # Blank)
                     /\ rows # <<>>
                  THEN "clear" ELSE "done" ]
    /\ UNCHANGED << job_running, last_run_time, to_date, sink, upstream,
                    runs >>

\* closed_sheet.clear() (app.py 289).
CloserClear(c) ==
    /\ closers[c].pc = "clear"
    /\ tables' = [ tables EXCEPT ![ClosedTable] = <<>> ]
    /\ closers' = [ closers EXCEPT ![c].pc = "update" ]
    /\ UNCHANGED << job_running, last_run_time, to_date, worksheets, cells,
                    now, upstream, runs >>

\* closed_sheet.update(values, 'A1') (app.py 291-296).
CloserUpdate(c) ==
    /\ closers[c].pc = "update"
    /\ tables' = [ tables EXCEPT
                     ![ClosedTable] = WrittenTable(@, closers[c].rows, FALSE) ]
    /\ closers' = [ closers EXCEPT ![c].pc = "done", ![c].result = "True" ]
    /\ UNCHANGED << job_running, last_run_time, to_date, worksheets, cells,
                    now, upstream, runs >>

Report(c) ==
    \/ CloserOpen(c)
    \/ \E clock \in ClockReadings : CloserRead(c, clock)
    \/ CloserClear(c)
    \/ CloserUpdate(c)

\* ---------------------------------------------------------- specification
Next ==
    \/ \E r \in Runs : RunJobStart(r)
    \/ RunJobInProgress
    \/ health_check
    \/ \E c \in Closers : update_closed_notices(c)
    \/ \E r \in Runs : Pipeline(r)
    \/ \E c \in Closers : Report(c)

Spec == Init /\ [][Next]_vars

\* ------------------------------------- specification of the release loop
\* The release loop as a function of its input: the feed is one page holding
\* any release with at most MaxDocs documents, followed by TenderRelease, and
\* one pipeline thread processes it.
DocTypes == { "UK2", "UK4", "UK6", "UK12", "UK13" }
DocLists(n) == [ 1..n -> DocTypes ]

\* The ways to spread at most MaxDocs documents over contracts[0], awards[0],
\* tender and planning.
DocCounts ==
    { n \in [ 1..4 -> 0..MaxDocs ] : n[1] + n[2] + n[3] + n[4] <= MaxDocs }

ContractLists(n) ==
    IF n = 0 THEN { <<>>, << Contract(<<>>) >> }
    ELSE { << Contract(d) >> : d \in DocLists(n) }

AwardLists(n) ==
    IF n = 0
    THEN { <<>> } \cup { << Award(<<>>, st) >> : st \in {"active", "cancelled"} }
    ELSE { << Award(d, st) >> : d \in DocLists(n), st \in {"active", "cancelled"} }

ReleaseShapes ==
    UNION { { Release(3, MY_ORG_ID, {}, c, a, t, pl, p, lots, 1, 1) :
                c \in ContractLists(n[1]), a \in AwardLists(n[2]),
                t \in DocLists(n[3]), p \in DocLists(n[4]),
                pl \in IF n[4] = 0 THEN BOOLEAN ELSE {TRUE},
                lots \in {2} } : n \in DocCounts }

InitRelease ==
    /\ InitService
    /\ \E release \in ReleaseShapes :
         upstream = << Page(<< release, TenderRelease >>, "none") >>

\* One run in which every page request and every sheet call succeeds.
NextRelease ==
    \/ RunJobStart(1)
    \/ SetRunning(1)
    \/ OpenMetadata(1)
    \/ MetaWrite(1)
    \/ fetch_releases(1, [ p \in 1..Len(upstream) |-> "ok" ], now)
    \/ Process(1)
    \/ ReadExisting(1)
    \/ WriteRows(1, TRUE)
    \/ UpdateLastFetchDate(1, TRUE)
    \/ UpdateLastFetchStatus(1, TRUE, now)
    \/ Finally(1)

SpecRelease == InitRelease /\ [][NextRelease]_vars

\* ------------------------------------ specification of record extraction
\* The extractors as a function of the release: the feed is one page holding
\* a release classified by one tender document, with any lots, parties,
\* award and title, followed by TenderRelease.
ExtractShapes ==
    { [ Release(3, MY_ORG_ID, {}, <<>>, a, << type >>, pl, <<>>, lots, 1, 1)
          EXCEPT !.title = title, !.has_parties = parties ] :
        type \in DocTypes, pl \in BOOLEAN,
        lots \in {Blank} \cup (0..MaxLots),
        a \in { <<>>, << Award(<<>>, "active") >> },
        title \in { Absent, "Draft" }, parties \in BOOLEAN }

InitExtract ==
    /\ InitService
    /\ \E release \in ExtractShapes :
         upstream = << Page(<< release, TenderRelease >>, "none") >>

SpecExtract == InitExtract /\ [][NextRelease]_vars

\* ------------------------------------ specification of the closed report
\* A run stores a UK4 tender whose deadline has passed and the report is
\* made; the upstream then publishes a further release, a second run stores
\* it and the report is made again.
ClosedTender ==
    Release(1, MY_ORG_ID, {}, <<>>, <<>>, << "UK4" >>, FALSE, <<>>, 1, 1, 0)

LaterReleases ==
    { Release(1, MY_ORG_ID, {}, <<>>, << Award(<< "UK6" >>, "active") >>,
              <<>>, FALSE, <<>>, 1, 2, 0),
      Release(1, MY_ORG_ID, {}, <<>>, << Award(<< "UK5" >>, "active") >>,
              <<>>, FALSE, <<>>, 1, 2, 0),
      Release(1, MY_ORG_ID, {}, <<>>, << Award(<<>>, "cancelled") >>,
              << "UK4", "UK12" >>, FALSE, <<>>, 1, 2, 0),
      Release(2, MY_ORG_ID, {}, <<>>, <<>>, << "UK4" >>, FALSE, <<>>, 1, 2, 0) }

FirstFeed == << Page(<< ClosedTender >>, "none") >>

InitReport ==
    /\ InitService
    /\ upstream = FirstFeed

\* The upstream publishes a further release; the next window holds it alone.
Publish ==
    /\ upstream = FirstFeed
    /\ closers[1].pc = "done"
    /\ \E release \in LaterReleases :
          upstream' = << Page(<< release >>, "none") >>
    /\ UNCHANGED << job_running, last_run_time, to_date, sink, now, runs,
                    closers >>

\* GET /update-closed once the second run has ended: the report thread of
\* the earlier request has ended and a new one starts.
update_closed_notices_again(c) ==
    /\ closers[c].pc = "done"
    /\ runs[2].pc = "done"
    /\ closers' = [ closers EXCEPT ![c] = [ IdleCloser EXCEPT !.pc = "open" ] ]
    /\ UNCHANGED << job_running, last_run_time, to_date, sink, now, upstream,
                    runs >>

NextReport ==
    \/ RunJobStart(1)
    \/ SetRunning(1)
    \/ OpenMetadata(1)
    \/ MetaWrite(1)
    \/ fetch_releases(1, [ p \in 1..Len(upstream) |-> "ok" ], now)
    \/ Process(1)
    \/ ReadExisting(1)
    \/ WriteRows(1, TRUE)
    \/ UpdateLastFetchDate(1, TRUE)
    \/ UpdateLastFetchStatus(1, TRUE, now)
    \/ Finally(1)
    \/ (runs[1].pc = "done" /\ update_closed_notices(1))
    \/ Report(1)
    \/ Publish
    \/ (upstream # FirstFeed /\ RunJobStart(2))
    \/ SetRunning(2)
    \/ OpenMetadata(2)
    \/ fetch_releases(2, [ p \in 1..Len(upstream) |-> "ok" ], now)
    \/ Process(2)
    \/ ReadExisting(2)
    \/ WriteRows(2, TRUE)
    \/ UpdateLastFetchDate(2, TRUE)
    \/ UpdateLastFetchStatus(2, TRUE, now)
    \/ Finally(2)
    \/ update_closed_notices_again(1)

SpecReport == InitReport /\ [][NextReport]_vars

\* --------------------------------- specification of the to-date override
\* One run over the service feed, started on a spreadsheet that earlier runs
\* have filled and whose Metadata!B2 the operator has set to any value:
\* blank, not a timestamp, or a timestamp.
Timestamps == 0..MaxClock

InitOverride ==
    /\ job_running = FALSE
    /\ last_run_time = Blank
    /\ to_date = Blank
    /\ worksheets = DataTables \cup {"Metadata"}
    /\ \E last_fetch \in { t \in Timestamps : t <= 1 },
          override \in {Blank, Invalid} \cup Timestamps :
         cells = [ A1 |-> TRUE, B1 |-> last_fetch, B2 |-> override,
                   B3 |-> "success" ]
    /\ tables = [ t \in TableNames |-> <<>> ]
    /\ now = 1
    /\ runs = [ r \in Runs |-> IdleRun ]
    /\ closers = [ c \in Closers |-> IdleCloser ]
    /\ upstream = ServiceFeed

NextOverride ==
    \/ RunJobStart(1)
    \/ SetRunning(1)
    \/ OpenMetadata(1)
    \/ \E clock \in ClockReadings :
          fetch_releases(1, [ p \in 1..Len(upstream) |-> "ok" ], clock)
    \/ Process(1)
    \/ ReadExisting(1)
    \/ WriteRows(1, TRUE)
    \/ UpdateLastFetchDate(1, TRUE)
    \/ \E clock \in ClockReadings : UpdateLastFetchStatus(1, TRUE, clock)
    \/ Finally(1)

SpecOverride == InitOverride /\ [][NextOverride]_vars

\* ------------------------------------- specification of award extraction
\* The award extractor as a function of the release: the feed is one page
\* holding a UK5, UK6 or UK7 release with at most MaxAwards awards, with or
\* without contracts[0], followed by TenderRelease.
Amounts == { Blank, 500, 700 }
ReleaseDates == { Blank, Invalid, 200000 }
SignedDates == { Blank, Invalid, 113600, 113601, 300000 }

AwardSeqs ==
    UNION { [ 1..k -> { [ Award(<<>>, "active") EXCEPT !.value = v ] :
                          v \in Amounts } ] : k \in 0..MaxAwards }

ContractSeqs ==
    { <<>> } \cup
    { << [ Contract(<<>>) EXCEPT !.value = v, !.dateSigned = d ] >> :
        v \in Amounts \ {700}, d \in SignedDates }

AwardShapes ==
    { Release(3, MY_ORG_ID, {}, c, a, << type >>, FALSE, <<>>, 1, date, 1) :
        type \in AwardTypes, c \in ContractSeqs, a \in AwardSeqs,
        date \in ReleaseDates }

InitAward ==
    /\ InitService
    /\ \E release \in AwardShapes :
         upstream = << Page(<< release, TenderRelease >>, "none") >>

SpecAward == InitAward /\ [][NextRelease]_vars

\* ------------------------------- specification of number normalisation
\* The feed is one page with a UK4 release whose tender.value.amount the
\* body writes with any digits, leading zeros included.
Digits == { 0, 1, 5 }
DigitStrings == UNION { [ 1..n -> Digits ] : n \in 1..MaxDigits }

InitAmount ==
    /\ InitService
    /\ \E digits \in DigitStrings :
         upstream =
           << Page(<< [ TenderRelease EXCEPT !.amount_text = digits ] >>,
                   "none") >>

SpecAmount == InitAmount /\ [][NextRelease]_vars

\* ------------------------------------------ specification of pagination
\* The upstream dataset is a list of distinct releases, served in any split
\* into at most MaxPages pages (a page may hold no release); every page but
\* the last carries a next link with a cursor.
DatasetReleases == { TenderRelease, ForeignRelease, TerminationRelease }

Datasets ==
    { d \in UNION { [ 1..n -> DatasetReleases ] : n \in 1..3 } :
        \A i, j \in 1..Len(d) : i # j => d[i] # d[j] }

\* The cut points of a split of 1..len into k pages.
Cuts(len, k) ==
    { c \in [ 0..k -> 0..len ] :
        /\ c[0] = 0 /\ c[k] = len
        /\ \A i \in 1..k : c[i - 1] <= c[i] }

Paginate(d, k, c) ==
    [ i \in 1..k |->
        Page(SubSeq(d, c[i - 1] + 1, c[i]), IF i < k THEN "cursor" ELSE "none") ]

InitPages ==
    /\ InitService
    /\ \E d \in Datasets, k \in 1..MaxPages :
         \E c \in Cuts(Len(d), k) : upstream = Paginate(d, k, c)

SpecPages == InitPages /\ [][NextRelease]_vars

\* ------------------------------- specification of updates and reprocessing
\* The feed is one page with two releases of one OCID in publication order:
\* a UK4 release titled "Draft" and an update-tagged UK4 release of it.
OriginalRelease(lots) ==
    [ Release(3, MY_ORG_ID, {}, <<>>, <<>>, << "UK4" >>, FALSE, <<>>, lots, 1, 1)
        EXCEPT !.title = "Draft" ]

UpdateRelease(lots, title, deadline) ==
    [ Release(3, MY_ORG_ID, {}, <<>>, <<>>, << "UK4" >>, FALSE, <<>>, lots, 2,
              deadline)
        EXCEPT !.title = title, !.tag = { "tenderUpdate" } ]

InitUpdate ==
    /\ InitService
    /\ \E lots \in 1..MaxLots, title \in { Absent, "Draft", "Final" },
          deadline \in 1..MaxClock :
         upstream = << Page(<< OriginalRelease(lots),
                               UpdateRelease(lots, title, deadline) >>,
                            "none") >>

\* Two runs one after the other over the same window: the first writes its
\* tables and then fails to store last_fetch_date (the sheet call of
\* update_last_fetch_date raises), so the second fetches the same releases.
NextRerun ==
    \/ RunJobStart(1)
    \/ SetRunning(1)
    \/ OpenMetadata(1)
    \/ MetaWrite(1)
    \/ fetch_releases(1, [ p \in 1..Len(upstream) |-> "ok" ], now)
    \/ Process(1)
    \/ ReadExisting(1)
    \/ WriteRows(1, TRUE)
    \/ UpdateLastFetchDate(1, FALSE)
    \/ Finally(1)
    \/ (runs[1].pc = "done" /\ RunJobStart(2))
    \/ SetRunning(2)
    \/ OpenMetadata(2)
    \/ fetch_releases(2, [ p \in 1..Len(upstream) |-> "ok" ], now)
    \/ Process(2)
    \/ ReadExisting(2)
    \/ WriteRows(2, TRUE)
    \/ UpdateLastFetchDate(2, TRUE)
    \/ UpdateLastFetchStatus(2, TRUE, now)
    \/ Finally(2)

SpecUpdate == InitUpdate /\ [][NextRerun]_vars

\* ================================================================= claims
\* The body of fetch_and_process_data is executing: job_running = True has
\* run and the finally block has not.
Executing(r) == runs[r].pc \notin {"idle", "started", "done"}

\* fetch_releases has returned in thread r.
Fetched(r) == runs[r].pc \notin {"idle", "started", "open", "meta_write", "fetch"}

\* The release loop of thread r is over.
Processed(r) == Fetched(r) /\ runs[r].pc # "fetched"

\* Thread r has spreadsheet calls behind it and ahead of it.
RunInSink(r) == Executing(r) /\ runs[r].pc \notin {"open", "finally"}
CloserInSink(c) == closers[c].pc \in {"read", "clear", "update"}

\* The number of rows in the result lists of a run.
TotalRows(results) ==
    Len(results["Planning_Notices"]) + Len(results["Tender_Notices"])
    + Len(results["Lots"]) + Len(results["Awards"])
    + Len(results["Award_Notices"]) + Len(results["Procurement_Terminations"])

\* C1: under every interleaving of /run triggers and pipeline threads at most
\* one execution of fetch_and_process_data is active at any time.
C1_AtMostOneExecution == Cardinality({ r \in Runs : Executing(r) }) <= 1

\* C2: when fetch_releases reported had_error = true in a run, the persisted
\* last_fetch_date at the end of that run (the run has reached its finally
\* block) equals the persisted last_fetch_date when the run was started.
C2_ErroredRunKeepsFetchDate ==
    \A r \in Runs :
        (runs[r].pc = "finally" /\ runs[r].error_occurred)
            => LastFetchDate(cells) = runs[r].lfd_before

\* C3: a page request that times out, returns an HTTP error status or returns
\* a body that is not valid JSON makes fetch_releases return had_error = true,
\* and the run does not write last_fetch_date.
C3_FailedPageMarksError ==
    \A r \in Runs :
        (Fetched(r) /\ runs[r].outcome # "ok")
            => (runs[r].error_occurred /\ runs[r].date_calls = 0)

\* C4: a run in which a sink table write failed does not change
\* last_fetch_date.
C4_FailedWriteKeepsFetchDate ==
    \A r \in Runs : runs[r].write_failed => ~runs[r].changed_date

\* C5: a run whose fetch was aborted by a timeout or a request exception
\* writes no row to any table, whatever pages it had fetched before.
C5_AbortedFetchWritesNoRows ==
    \A r \in Runs :
        (Fetched(r) /\ runs[r].outcome \in {"timeout", "http_error"})
            => (runs[r].rows_written = 0 /\ runs[r].results = EmptyResults)

\* C5 witness: a run has ended whose second page request was aborted after
\* the first page had been fetched with releases of the organisation.
C5_Witness ==
    \E r \in Runs :
        /\ runs[r].pc = "done"
        /\ runs[r].outcome \in {"timeout", "http_error"}
        /\ runs[r].page_count = 2
        /\ upstream[1].releases # <<>>

C7_OneSinkWorker ==
    Cardinality({ r \in Runs : RunInSink(r) })
        + Cardinality({ c \in Closers : CloserInSink(c) }) <= 1

\* C8: the job_running value of the status endpoint is true exactly when a
\* pipeline execution is in progress.
C8_HealthReportsRun ==
    health_response.job_running <=> (\E r \in Runs : Executing(r))

\* The first release of the feed, the input of the release loop.
FirstRelease == upstream[1].releases[1]

Cancelled(release) ==
    release.awards # <<>> /\ release.awards[1].status = "cancelled"

ZeroDocuments(release) ==
    /\ contract_docs(release) = <<>>
    /\ award_docs(release) = <<>>
    /\ release.tender_documents = <<>>
    /\ release.planning_documents = <<>>

\* The rows with the OCID of release in a list of rows.
RowsFor(release, rows) ==
    SelectSeq(rows, LAMBDA row : row.OCID = release.ocid)

\* The four notice tables.
NoticeTables ==
    { "Planning_Notices", "Tender_Notices", "Award_Notices",
      "Procurement_Terminations" }

\* The notice records release has in the result lists of run r.
NoticeRows(r, release) ==
    UNION { RowsOf(RowsFor(release, runs[r].results[t])) : t \in NoticeTables }

\* The notice table of a notice type, "none" for a type without one.
NoticeTableOf(type) ==
    IF type \in {"UK1", "UK2", "UK3"} THEN "Planning_Notices"
    ELSE IF type = "UK4" THEN "Tender_Notices"
    ELSE IF type \in {"UK5", "UK6", "UK7"} THEN "Award_Notices"
    ELSE IF type = "UK12" THEN "Procurement_Terminations"
    ELSE "none"

\* The releases of the first k pages, in order.
RECURSIVE FirstPages(_, _)
FirstPages(pages, k) ==
    IF k = 0 THEN <<>> ELSE FirstPages(pages, k - 1) \o pages[k].releases

\* The first page without releases (Len(pages) + 1 when every page has one).
FirstEmptyPage(pages) ==
    IF \E k \in 1..Len(pages) : pages[k].releases = <<>>
    THEN CHOOSE k \in 1..Len(pages) :
           /\ pages[k].releases = <<>>
           /\ \A j \in 1..(k - 1) : pages[j].releases # <<>>
    ELSE Len(pages) + 1

\* The number a string of decimal digits denotes.
RECURSIVE Pow10(_)
Pow10(n) == IF n = 0 THEN 1 ELSE 10 * Pow10(n - 1)

RECURSIVE DigitsValue(_)
DigitsValue(digits) ==
    IF digits = <<>> THEN 0
    ELSE digits[1] * Pow10(Len(digits) - 1) + DigitsValue(Tail(digits))

\* C9: a release whose first award is cancelled is classified by the last
\* entry of tender.documents (unclassified when there is none), and the run
\* is not aborted.
C9_CancelledUsesTenderDocuments ==
    \A r \in Runs :
        (Processed(r) /\ Cancelled(FirstRelease))
            => /\ ~runs[r].raised
               /\ notice_type(FirstRelease) =
                    IF FirstRelease.tender_documents = <<>> THEN Unclassified
                    ELSE Last(FirstRelease.tender_documents)

\* C10: a release without documents in contracts[0], awards[0], tender and
\* planning is unclassified, raises nothing, adds no record to any table, and
\* the release after it is processed and written.
C10_ZeroDocumentsSkipped ==
    ZeroDocuments(FirstRelease) =>
        /\ notice_type(FirstRelease) = Unclassified
        /\ \A t \in TableNames : \A i \in 1..Len(tables[t]) :
              tables[t][i].OCID # FirstRelease.ocid
        /\ \A r \in Runs :
              /\ ~runs[r].raised
              /\ \A t \in DataTables : \A i \in 1..Len(runs[r].results[t]) :
                    runs[r].results[t][i].OCID # FirstRelease.ocid
              /\ Processed(r) =>
                    runs[r].results["Tender_Notices"]
                        = << Row(TenderRelease, "UK4", 0) >>
              /\ runs[r].pc = "done" =>
                    tables["Tender_Notices"] = << Row(TenderRelease, "UK4", 0) >>

\* C10 witness: the run over a feed whose first release has no documents
\* (but a cancelled first award) has ended with the second release written.
C10_Witness ==
    /\ ZeroDocuments(FirstRelease)
    /\ Cancelled(FirstRelease)
    /\ runs[1].pc = "done"
    /\ runs[1].status_calls = << "success" >>
    /\ tables["Tender_Notices"] = << Row(TenderRelease, "UK4", 0) >>

\* C11: when extracting one release raises, only that release is skipped:
\* every other release of the run (here the UK4 release that follows it) is
\* still extracted and written to the sink.
C11_ExtractionErrorIsolated ==
    \A r \in Runs :
        runs[r].pc = "done" =>
            \A i \in 1..Len(runs[r].all_releases) :
                LET release == runs[r].all_releases[i] IN
                (notice_type(release) = "UK4" /\ ~ExtractRaises(release, "UK4"))
                    => Row(release, "UK4", 0) \in RowsOf(tables["Tender_Notices"])

\* C12: a release whose tender.lots, parties, tender.title or
\* tender.value.amount is an absent key or an empty container yields the
\* sentinel "N/A" in the fields read from it, and extracting it never raises.
C12_DefaultsNeverRaise ==
    \A r \in Runs :
        Processed(r) =>
            /\ ~runs[r].raised
            /\ \A row \in NoticeRows(r, FirstRelease) :
                  /\ FirstRelease.title = Absent => row.Title = NA
                  /\ (row.NoticeType \in PlanningTypes \cup TenderTypes
                        /\ FirstRelease.lots \in {Blank, 0})
                       => row.ContractStart = NA

\* C13: a planning, tender or award release with n >= 2 lots yields a notice
\* record whose "CPV Code" is "See lots sheet for CPV codes" and exactly n
\* lot records numbered 1..n in lot order; with 0 or 1 lots it yields no lot
\* record.
C13_LotRecords ==
    \A r \in Runs :
        LET type == notice_type(FirstRelease)
            n == lots_len(FirstRelease)
            lot_rows == RowsFor(FirstRelease, runs[r].results["Lots"])
        IN (/\ Processed(r)
            /\ \/ type \in TenderTypes \cup AwardTypes
               \/ (type \in PlanningTypes /\ FirstRelease.planning))
           => IF n >= 2
              THEN /\ \E row \in NoticeRows(r, FirstRelease) : row.CPV = SeeLots
                   /\ Len(lot_rows) = n
                   /\ \A idx \in 1..n : lot_rows[idx].Number = idx
              ELSE lot_rows = <<>>

\* C14: processing the same release list a second time yields the same
\* records as processing it once: no table gets a second row for a release
\* it already holds.
C14_ReprocessingAddsNoRow ==
    \A r \in Runs :
        runs[r].pc = "done" =>
            \A t \in DataTables :
                \A i, j \in 1..Len(tables[t]) :
                    i # j => tables[t][i] # tables[t][j]

\* C15: for releases sharing an OCID processed in publication order one
\* record is kept per OCID, in which an update-tagged release has overwritten
\* the keys whose candidate value is not the sentinel and differs (the title
\* "Draft" becomes "Final").
C15_OneRecordPerOCID ==
    \A r \in Runs :
        Processed(r) =>
            LET rows == RowsFor(FirstRelease, runs[r].results["Tender_Notices"])
                update == upstream[1].releases[2]
            IN /\ Len(rows) = 1
               /\ rows[1].Title =
                    IF update.title \notin { Absent, FirstRelease.title }
                    THEN update.title ELSE FirstRelease.title

\* C16 as stated: fetch_releases returns the releases of the organisation
\* of the whole dataset, whatever the placement of the page boundaries, also
\* when a page before the last holds no release at all.
C16_AnyPagination ==
    \A r \in Runs :
        Fetched(r) =>
            runs[r].all_releases
                = org_releases(FirstPages(upstream, Len(upstream)))

\* C16 amended: when every page request is answered with a page,
\* fetch_releases returns, in feed order, the releases of the organisation
\* of the pages before the first page without releases, which is the whole
\* dataset when every page holds a release, also a page that holds none of
\* the organisation; a page without releases ends the fetch.
C16_PaginationUpToEmptyPage ==
    \A r \in Runs :
        (Fetched(r) /\ runs[r].outcome = "ok") =>
            LET k == FirstEmptyPage(upstream) IN
            /\ ~runs[r].error_occurred
            /\ runs[r].all_releases = org_releases(FirstPages(upstream, k - 1))
            /\ runs[r].page_count = IF k > Len(upstream) THEN Len(upstream) ELSE k

\* C16 witness: a fetch over three pages, the second one without a release
\* of the organisation, has returned the organisation's release of the third.
C16_Witness ==
    /\ Len(upstream) = 3
    /\ upstream[2].releases = << ForeignRelease >>
    /\ upstream[3].releases = << TerminationRelease >>
    /\ Fetched(1)
    /\ runs[1].page_count = 3
    /\ runs[1].all_releases = << TenderRelease, TerminationRelease >>

\* C17: the body's amount digits are normalised before parsing: the page
\* parses, the number keeps its value (leading zeros stripped), digits that
\* are all zeros give 0, digits without a leading zero are unchanged, and
\* the value reaches the record.
C17_LeadingZerosStripped ==
    \A r \in Runs :
        Fetched(r) =>
            LET digits == upstream[1].releases[1].amount_text
                fixed == fixed_json(digits)
            IN /\ runs[r].outcome = "ok"
               /\ fixed = << 0 >> \/ fixed[1] # 0
               /\ JsonNumber(fixed) = DigitsValue(digits)
               /\ (\A i \in 1..Len(digits) : digits[i] = 0) => fixed = << 0 >>
               /\ digits[1] # 0 => fixed = digits
               /\ Processed(r) =>
                     \A row \in NoticeRows(r, FirstRelease) :
                        row.Value = DigitsValue(digits)

\* C17 witness: a run has written the record of a release whose amount the
\* body wrote as 015; its "Value ex VAT" is 15.
C17_Witness ==
    /\ upstream[1].releases[1].amount_text = << 0, 1, 5 >>
    /\ runs[1].pc = "done"
    /\ Len(tables["Tender_Notices"]) = 1
    /\ tables["Tender_Notices"][1].Value = 15

C19_FirstNonEmptyListLastDocument ==
    \A r \in Runs :
        (Processed(r) /\ ~Cancelled(FirstRelease)) =>
            LET rel == FirstRelease
                c == IF rel.contracts = <<>> THEN <<>>
                     ELSE rel.contracts[1].documents
                a == IF rel.awards = <<>> THEN <<>>
                     ELSE rel.awards[1].documents
                t == rel.tender_documents
                p == rel.planning_documents
                carries(list) ==
                    /\ \A tbl \in DataTables :
                         \A i \in 1..Len(runs[r].results[tbl]) :
                            runs[r].results[tbl][i].OCID = rel.ocid =>
                                runs[r].results[tbl][i].NoticeType
                                    = list[Len(list)]
                    /\ (\/ list[Len(list)] \in {"UK4", "UK6", "UK12"}
                        \/ list[Len(list)] = "UK2" /\ rel.planning) =>
                           RowsFor(rel, runs[r].results[
                               NoticeTableOf(list[Len(list)])]) # <<>>
            IN /\ c # <<>> => carries(c)
               /\ (c = <<>> /\ a # <<>>) => carries(a)
               /\ (c = <<>> /\ a = <<>> /\ t # <<>>) => carries(t)
               /\ (c = <<>> /\ a = <<>> /\ t = <<>> /\ p # <<>>) => carries(p)

\* C19 witness: a release with a UK6 document in contracts[0] and a UK4
\* document in tender has been processed into an Award_Notices record.
C19_Witness ==
    /\ Processed(1)
    /\ ~Cancelled(FirstRelease)
    /\ contract_docs(FirstRelease) = << "UK6" >>
    /\ FirstRelease.tender_documents = << "UK4" >>
    /\ Len(RowsFor(FirstRelease, runs[1].results["Award_Notices"])) = 1
    /\ RowsFor(FirstRelease, runs[1].results["Tender_Notices"]) = <<>>

\* C20: a processed release has at most one record over the four notice
\* tables, in the table of its one notice type (UK1-UK3 Planning_Notices,
\* UK4 Tender_Notices, UK5-UK7 Award_Notices, UK12
\* Procurement_Terminations), and a release of any other type has no record
\* in any table; the sink gets the same.
C20_OneRecordInOneNoticeTable ==
    \A r \in Runs :
        Processed(r) =>
            LET rel == FirstRelease
                type == notice_type(rel)
                held(lists) ==
                    /\ \A t1, t2 \in NoticeTables :
                          LET rows1 == RowsFor(rel, lists[t1])
                              rows2 == RowsFor(rel, lists[t2])
                          IN /\ Len(rows1) <= 1
                             /\ (rows1 # <<>> /\ rows2 # <<>>) => t1 = t2
                             /\ rows1 # <<>> =>
                                   /\ rows1[1].NoticeType = type
                                   /\ t1 = NoticeTableOf(type)
                    /\ NoticeTableOf(type) = "none" =>
                          \A t \in DataTables : RowsFor(rel, lists[t]) = <<>>
            IN /\ held(runs[r].results)
               /\ held(tables)

\* C20 witness: a UK12 release has been written: one record in
\* Procurement_Terminations, none in the other notice tables.
C20_Witness ==
    /\ runs[1].pc = "done"
    /\ notice_type(FirstRelease) = "UK12"
    /\ Len(RowsFor(FirstRelease, tables["Procurement_Terminations"])) = 1
    /\ \A t \in NoticeTables \ {"Procurement_Terminations"} :
          RowsFor(FirstRelease, tables[t]) = <<>>

\* C21: a UK1-UK3 release without a planning key gets no Planning_Notices
\* record but, having more than one lot, still gets one lot record per lot.
C21_LotsWithoutPlanning ==
    \A r \in Runs :
        (/\ Processed(r)
         /\ notice_type(FirstRelease) \in PlanningTypes
         /\ ~FirstRelease.planning
         /\ lots_len(FirstRelease) > 1) =>
            /\ RowsFor(FirstRelease, runs[r].results["Planning_Notices"]) = <<>>
            /\ Len(RowsFor(FirstRelease, runs[r].results["Lots"]))
                   = lots_len(FirstRelease)

\* C22: a release whose tender.lots is empty or absent is extracted without
\* an exception, and the "CPV Code" of its notice record is the first item's
\* classification id, as for one lot, not the lots-sheet sentinel.
C22_EmptyLotsSingleLotDefaults ==
    \A r \in Runs :
        (Processed(r) /\ lots_len(FirstRelease) = 0) =>
            /\ ~runs[r].raised
            /\ \A row \in NoticeRows(r, FirstRelease) :
                  row.NoticeType \notin TerminationTypes => row.CPV = ItemCPV

\* C23: a UK6 or UK7 release with k awards yields k award records, one per
\* award in order, and a UK5 release none; the value of a UK7 award record
\* is that of contracts[0] and, when the contract carries none, that of the
\* award itself.  (Releases whose dates parse or are absent.)
C23_AwardRecords ==
    \A r \in Runs :
        LET rel == FirstRelease
            type == notice_type(rel)
            rows == RowsFor(rel, runs[r].results["Awards"])
        IN (/\ Processed(r)
            /\ type \in AwardTypes
            /\ ~DaysToAwardRaises(rel)) =>
              IF type = "UK5" THEN rows = <<>>
              ELSE /\ Len(rows) = Len(rel.awards)
                   /\ \A i \in 1..Len(rows) :
                        /\ rows[i].Number = i
                        /\ type = "UK6" => rows[i].Value = rel.awards[i].value
                        /\ type = "UK7" =>
                             rows[i].Value =
                               IF rel.contracts # <<>>
                                  /\ rel.contracts[1].value # Blank
                               THEN rel.contracts[1].value
                               ELSE rel.awards[i].value

\* C24: "Days to Award" of an award notice is the floor of release.date
\* minus contracts[0].dateSigned in whole days when both dates are present
\* and parse, and the empty string, with nothing raised, when either is
\* missing or does not parse.
C24_DaysToAward ==
    \A r \in Runs :
        LET rel == FirstRelease
            signed == IF rel.contracts = <<>> THEN Blank
                      ELSE rel.contracts[1].dateSigned
            rows == RowsFor(rel, runs[r].results["Award_Notices"])
        IN (Processed(r) /\ notice_type(rel) \in AwardTypes) =>
              /\ ~runs[r].raised
              /\ Len(rows) = 1
              /\ IF rel.date \notin {Blank, Invalid}
                    /\ signed \notin {Blank, Invalid}
                 THEN /\ Len(rows[1].DaysToAward) = 1
                      /\ LET n == rows[1].DaysToAward[1]
                         IN /\ n * SecondsPerDay <= rel.date - signed
                            /\ rel.date - signed < (n + 1) * SecondsPerDay
                 ELSE rows[1].DaysToAward = NoDays

\* C25: fetch_releases returns had_error = false exactly when its last page
\* request was answered by a page that holds no releases, carries no next
\* link, or carries a next link without a cursor.
C25_NormalTerminationExactly ==
    \A r \in Runs :
        Fetched(r) =>
            LET last == upstream[runs[r].page_count] IN
            (~runs[r].error_occurred) <=>
                /\ runs[r].outcome = "ok"
                /\ \/ last.releases = <<>>
                   \/ last.next # "cursor"

\* C26: whatever the to-date override, the last_fetch_date a run writes is
\* not before the from_date that run read.
C26_FetchDateNeverBackwards ==
    [][ \A r \in Runs :
           (runs[r].pc = "update_date" /\ runs'[r].pc = "update_status") =>
               cells'.B1 >= runs[r].from_date ]_vars

\* C27: the last_fetch_date a run persists is the updatedTo bound that same
\* run sent in its page requests, under every interleaving of triggers.
C27_FetchDateIsOwnUpdatedTo ==
    [][ \A r \in Runs :
           (runs[r].pc = "update_date" /\ runs'[r].pc = "update_status") =>
               cells'.B1 = runs[r].updated_to ]_vars

\* C28: every execution that ends, by success, by the fetch_error return or
\* by an exception, has reset job_running: whenever no execution is in
\* progress the flag is false and GET /run is answered "started".
C28_EndedRunResetsFlag ==
    (\A r \in Runs : ~Executing(r)) =>
        /\ job_running = FALSE
        /\ run_job_status = "started"

\* C28 witness: one execution has ended by the fetch_error return, another
\* by an exception of a table write, none is in progress, and the flag is
\* false.
C28_Witness ==
    /\ \E r \in Runs : runs[r].pc = "done" /\ runs[r].error_occurred
    /\ \E r \in Runs : runs[r].pc = "done" /\ runs[r].write_failed
    /\ \A r \in Runs : runs[r].pc = "done"
    /\ job_running = FALSE

\* C29: when a run completes, the persisted last_fetch_status is "success"
\* only if that run fetched every page without error, wrote all its tables
\* and advanced last_fetch_date.
C29_StatusDescribesRun ==
    [][ \A r \in Runs :
           (/\ runs[r].pc = "finally"
            /\ runs'[r].pc = "done"
            /\ cells'.B3 = "success") =>
               /\ runs[r].outcome = "ok"
               /\ ~runs[r].error_occurred
               /\ ~runs[r].raised
               /\ ~runs[r].write_failed
               /\ runs[r].date_calls = 1 ]_vars

\* The OCIDs the report is about: the latest UK4 notice has a submission
\* deadline before current_date, and the OCID has no termination record and
\* no UK6/UK7 award notice.
ClosedUnawardedOCIDs(tbls, current_date) ==
    { n.OCID : n \in
        { m \in latest_uk4(tbls["Tender_Notices"]) :
            /\ m.Deadline # Blank
            /\ m.Deadline < current_date
            /\ \A i \in 1..Len(tbls["Procurement_Terminations"]) :
                  tbls["Procurement_Terminations"][i].OCID # m.OCID
            /\ \A i \in 1..Len(tbls["Award_Notices"]) :
                  tbls["Award_Notices"][i].OCID = m.OCID =>
                      tbls["Award_Notices"][i].NoticeType \notin {"UK6", "UK7"} } }

\* C30: when update_closed_unawarded_notices returns success, the table
\* Closed_Notices_Not_Awarded holds exactly one row per OCID of
\* ClosedUnawardedOCIDs, and no row when there is none.
C30_ClosedTableIsTheReport ==
    [][ \A c \in Closers :
           (/\ closers[c].pc # "done"
            /\ closers'[c].pc = "done"
            /\ closers'[c].result = "True") =>
               /\ { tables'[ClosedTable][i].OCID :
                      i \in 1..Len(tables'[ClosedTable]) }
                    = ClosedUnawardedOCIDs(tables', now')
               /\ Len(tables'[ClosedTable])
                    = Cardinality(ClosedUnawardedOCIDs(tables', now')) ]_vars

====
